---- MODULE Spec2Model ----
(***************************************************************************)
(* Model of the stock/price synchronisation scripts seller.py (Ozon        *)
(* "Seller" API) and market.py (Yandex "Market" API).                      *)
(*                                                                         *)
(* Python values are modelled as follows.                                  *)
(*  - A spreadsheet cell is either a number or a string (pandas gives an   *)
(*    int for a numeric cell): a record [isInt, i, s].  str() and int()    *)
(*    of a cell are the operators PyStr / PyStrChars and PyInt.            *)
(*  - A string that the code inspects character by character (quantity,    *)
(*    price) is a sequence of one-character strings.                       *)
(*  - None is the reserved string None, which is no cursor and no id.      *)
(*  - A raised exception is a record [raised |-> TRUE, exc |-> class].     *)
(***************************************************************************)
EXTENDS Integers, Sequences, FiniteSets, TLC

VARIABLES
    prog,            \* the entry point that is running
    pc,              \* its control position
    campaign,        \* campaign the current requests are addressed to
    last_id,         \* get_offer_ids: cursor of the next list request
    product_list,    \* get_offer_ids: records accumulated so far
    pages,           \* history: pages fetched by the running get_offer_ids
    requests,        \* history: cursors sent by the running get_offer_ids
    offer_ids,       \* the identifier list (mutated in place by create_stocks)
    entry_ids,       \* history: the identifier list as get_offer_ids returned it
    watch_remnants,  \* the inventory records
    stocks,          \* stock payload
    prices,          \* price payload
    todo,            \* list(divide(...)): chunks not pushed yet
    sent,            \* history: chunks pushed by the running for-loop
    sent_op,         \* history: which update call the running for-loop issues
    calls,           \* history: every request of the run, in order
    error,           \* exception in flight or handled ("none" if none)
    printed,         \* what main printed
    outcome,         \* "running", "returned", "raised" (exception left the entry point)
    retval,          \* value returned by the entry point
    lst, n, i, out   \* divide: arguments, range position, chunks yielded

vars == << prog, pc, campaign, last_id, product_list, pages, requests, offer_ids,
           entry_ids, watch_remnants, stocks, prices, todo, sent, sent_op, calls,
           error, printed, outcome, retval, lst, n, i, out >>

-----------------------------------------------------------------------------
(* Bounds of the model *)

MaxInv == 2          \* inventory records passed to a transform
MaxIds == 3          \* identifiers passed to a transform
MaxLen == 5          \* length of a list passed to divide
MaxN == 3            \* chunk size passed to divide
MaxCalls == 2        \* list requests of one get_offer_ids invocation
MaxProducts == 3     \* records a marketplace serves to one get_offer_ids invocation
MaxTotal == 3        \* "total" reported by the Seller list endpoint
MaxSyncInv == 2      \* inventory records downloaded in a sync run
MaxSyncCalls == 2    \* list requests of one get_offer_ids invocation in a sync run

\* Batch sizes.  The source uses 100, 900, 1000 (seller.py) and 2000, 500
\* (market.py); the model scales them down so that payloads of a few items
\* need several chunks.
SellerStockBatch == 2        \* seller.py:312, 327   (100)
SellerPriceBatch == 1        \* seller.py:331        (900)
SellerUploadPriceBatch == 1  \* seller.py:288        (1000)
MarketStockBatch == 2        \* market.py:287, 309, 318 (2000)
MarketPriceBatch == 1        \* market.py:262        (500)

-----------------------------------------------------------------------------
(* Python values *)

None == "<None>"

IntCell(v) == [isInt |-> TRUE, i |-> v, s |-> ""]
StrCell(v) == [isInt |-> FALSE, i |-> 0, s |-> v]
IntChars(v) == [isInt |-> TRUE, i |-> v, s |-> <<>>]
Chars(v) == [isInt |-> FALSE, i |-> 0, s |-> v]

Digits == {"0", "1", "2", "3", "4", "5", "6", "7", "8", "9"}

DigitVal(c) ==
    CASE c = "0" -> 0 [] c = "1" -> 1 [] c = "2" -> 2 [] c = "3" -> 3
      [] c = "4" -> 4 [] c = "5" -> 5 [] c = "6" -> 6 [] c = "7" -> 7
      [] c = "8" -> 8 [] c = "9" -> 9

DigitChar(d) == << "0", "1", "2", "3", "4", "5", "6", "7", "8", "9" >>[d + 1]

\* str(v) of a code cell: the decimal numeral of an int, a string as it is.
PyStr(cell) == IF cell.isInt THEN ToString(cell.i) ELSE cell.s

RECURSIVE NatChars(_)
NatChars(v) == IF v < 10 THEN << DigitChar(v) >>
               ELSE Append(NatChars(v \div 10), DigitChar(v % 10))

\* str(v) of a quantity cell, as characters.
PyStrChars(cell) ==
    IF ~cell.isInt THEN cell.s
    ELSE IF cell.i < 0 THEN << "-" >> \o NatChars(-cell.i) ELSE NatChars(cell.i)

RECURSIVE LStrip(_)
LStrip(s) == IF s # <<>> /\ Head(s) = " " THEN LStrip(Tail(s)) ELSE s

RECURSIVE RStrip(_)
RStrip(s) == IF s # <<>> /\ s[Len(s)] = " " THEN RStrip(SubSeq(s, 1, Len(s) - 1)) ELSE s

RECURSIVE DigitsVal(_, _)
DigitsVal(s, acc) == IF s = <<>> THEN acc
                     ELSE DigitsVal(Tail(s), 10 * acc + DigitVal(Head(s)))

\* int(s) of a string: surrounding blanks stripped, an optional sign, then one
\* or more decimal digits; anything else raises ValueError.
PyIntStr(s) ==
    LET t == RStrip(LStrip(s))
        signed == t # <<>> /\ Head(t) \in {"-", "+"}
        d == IF signed THEN Tail(t) ELSE t
    IN  IF d = <<>> \/ \E k \in 1..Len(d) : d[k] \notin Digits
        THEN [raised |-> TRUE, exc |-> "ValueError", v |-> 0]
        ELSE [raised |-> FALSE, exc |-> "none",
              v |-> IF signed /\ Head(t) = "-" THEN -DigitsVal(d, 0) ELSE DigitsVal(d, 0)]

\* int(v) of a cell.
PyInt(cell) == IF cell.isInt THEN [raised |-> FALSE, exc |-> "none", v |-> cell.i]
               ELSE PyIntStr(cell.s)

\* x in seq
In(x, seq) == \E k \in 1..Len(seq) : seq[k] = x

\* Variant of Remove that deletes every occurrence of x.
RemoveAll(seq, x) == SelectSeq(seq, LAMBDA y : y # x)

\* seq.remove(x): the first occurrence of x is deleted.
Remove(seq, x) ==
    LET k == CHOOSE j \in 1..Len(seq) : seq[j] = x /\ \A h \in 1..(j - 1) : seq[h] # x
    IN  SubSeq(seq, 1, k - 1) \o SubSeq(seq, k + 1, Len(seq))

\* d.get(key)
Get(d, key) == IF key \in DOMAIN d THEN d[key] ELSE None

-----------------------------------------------------------------------------
(* seller.py: price_conversion *)

RECURSIVE SplitHead(_)
\* price.split(".")[0]
SplitHead(s) == IF s = <<>> \/ Head(s) = "." THEN <<>>
                ELSE << Head(s) >> \o SplitHead(Tail(s))

RECURSIVE OnlyDigits(_)
\* re.sub("[^0-9]", "", s)
OnlyDigits(s) == IF s = <<>> THEN <<>>
                 ELSE IF Head(s) \in Digits THEN << Head(s) >> \o OnlyDigits(Tail(s))
                 ELSE OnlyDigits(Tail(s))

price_conversion(price) == OnlyDigits(SplitHead(price))

-----------------------------------------------------------------------------
(* create_stocks (seller.py, market.py) *)

\* Variant of StockOf without the "1" sentinel.
StockOfPlain(watch) ==
    IF PyStrChars(watch.quantity) = << ">", "1", "0" >>
    THEN [raised |-> FALSE, exc |-> "none", v |-> 100]
    ELSE PyInt(watch.quantity)

\* The quantity rule of both create_stocks.
StockOf(watch) ==
    LET count == PyStrChars(watch.quantity)
    IN  IF count = << ">", "1", "0" >> THEN [raised |-> FALSE, exc |-> "none", v |-> 100]
        ELSE IF count = << "1" >> THEN [raised |-> FALSE, exc |-> "none", v |-> 0]
        ELSE PyInt(watch.quantity)

SellerStockItem(id, stock) == [offer_id |-> id, stock |-> stock]

\* datetime.utcnow() of the call, one fixed instant.
Date == "2024-01-01T00:00:00Z"

MarketStockItem(id, stock, warehouse_id) ==
    [sku |-> id, warehouseId |-> warehouse_id,
     items |-> << [count |-> stock, type |-> "FIT", updatedAt |-> Date] >>]

StockItem(market, id, stock, warehouse_id) ==
    IF market = "seller" THEN SellerStockItem(id, stock)
    ELSE MarketStockItem(id, stock, warehouse_id)

RECURSIVE ZeroItems(_, _, _)
\* second loop: one item of quantity 0 for every identifier left in the list
ZeroItems(market, ids, warehouse_id) ==
    IF ids = <<>> THEN <<>>
    ELSE << StockItem(market, Head(ids), 0, warehouse_id) >>
         \o ZeroItems(market, Tail(ids), warehouse_id)

RECURSIVE StocksLoop(_, _, _, _, _, _)
\* first loop, from record k on, with the payload and the identifier list so far
StocksLoop(market, remnants, k, acc, ids, warehouse_id) ==
    IF k > Len(remnants)
    THEN [raised |-> FALSE, exc |-> "none",
          stocks |-> acc \o ZeroItems(market, ids, warehouse_id), offer_ids |-> ids]
    ELSE LET watch == remnants[k]
             code == PyStr(watch.code)
         IN  IF In(code, ids)
             THEN LET stock == StockOf(watch)
                  IN  IF stock.raised
                      THEN [raised |-> TRUE, exc |-> stock.exc,
                            stocks |-> <<>>, offer_ids |-> ids]
                      ELSE StocksLoop(market, remnants, k + 1,
                                      Append(acc, StockItem(market, code, stock.v, warehouse_id)),
                                      Remove(ids, code), warehouse_id)
             ELSE StocksLoop(market, remnants, k + 1, acc, ids, warehouse_id)

\* The result carries the payload and the identifier list as the call leaves it.
create_stocks(market, remnants, ids, warehouse_id) ==
    StocksLoop(market, remnants, 1, <<>>, ids, warehouse_id)

StockId(market, item) == IF market = "seller" THEN item.offer_id ELSE item.sku
StockQty(market, item) == IF market = "seller" THEN item.stock ELSE item.items[1].count

-----------------------------------------------------------------------------
(* create_prices (seller.py, market.py) *)

SellerPriceItem(watch) ==
    [raised |-> FALSE, exc |-> "none",
     v |-> [auto_action_enabled |-> "UNKNOWN", currency_code |-> "RUB",
            offer_id |-> PyStr(watch.code), old_price |-> "0",
            price |-> price_conversion(watch.price)]]

MarketPriceItem(watch) ==
    LET value == PyIntStr(price_conversion(watch.price))
    IN  IF value.raised THEN [raised |-> TRUE, exc |-> value.exc, v |-> <<>>]
        ELSE [raised |-> FALSE, exc |-> "none",
              v |-> [id |-> PyStr(watch.code),
                     price |-> [value |-> value.v, currencyId |-> "RUR"]]]

PriceItem(market, watch) ==
    IF market = "seller" THEN SellerPriceItem(watch) ELSE MarketPriceItem(watch)

RECURSIVE PricesLoopConsuming(_, _, _, _, _)
\* Variant of PricesLoop that removes a matched identifier, as create_stocks does.
PricesLoopConsuming(market, remnants, k, acc, ids) ==
    IF k > Len(remnants)
    THEN [raised |-> FALSE, exc |-> "none", prices |-> acc, offer_ids |-> ids]
    ELSE IF In(PyStr(remnants[k].code), ids)
         THEN LET price == PriceItem(market, remnants[k])
              IN  IF price.raised
                  THEN [raised |-> TRUE, exc |-> price.exc, prices |-> <<>>, offer_ids |-> ids]
                  ELSE PricesLoopConsuming(market, remnants, k + 1, Append(acc, price.v),
                                           Remove(ids, PyStr(remnants[k].code)))
         ELSE PricesLoopConsuming(market, remnants, k + 1, acc, ids)

RECURSIVE PricesLoop(_, _, _, _, _)
PricesLoop(market, remnants, k, acc, ids) ==
    IF k > Len(remnants)
    THEN [raised |-> FALSE, exc |-> "none", prices |-> acc, offer_ids |-> ids]
    ELSE IF In(PyStr(remnants[k].code), ids)
         THEN LET price == PriceItem(market, remnants[k])
              IN  IF price.raised
                  THEN [raised |-> TRUE, exc |-> price.exc, prices |-> <<>>, offer_ids |-> ids]
                  ELSE PricesLoop(market, remnants, k + 1, Append(acc, price.v), ids)
         ELSE PricesLoop(market, remnants, k + 1, acc, ids)

\* The result carries the payload and the identifier list as the call leaves it.
create_prices(market, remnants, ids) == PricesLoop(market, remnants, 1, <<>>, ids)

PriceId(market, item) == IF market = "seller" THEN item.offer_id ELSE item.id

-----------------------------------------------------------------------------
(* divide (seller.py) *)

\* Variant of Slice that forgets the start: lst[: b]
SliceFromStart(seq, a, b) == SubSeq(seq, 1, IF b < Len(seq) THEN b ELSE Len(seq))

\* lst[a : b] for 0 <= a <= b
Slice(seq, a, b) == SubSeq(seq, a + 1, IF b < Len(seq) THEN b ELSE Len(seq))

\* Variant of InRange that takes a position only when a whole chunk is left.
InRangeWhole(k, stop, step) == IF step > 0 THEN k + step <= stop ELSE k > stop

\* Whether position k is produced by range(0, stop, step) when it is reached.
InRange(k, stop, step) == IF step > 0 THEN k < stop ELSE k > stop

RECURSIVE DivideFrom(_, _, _)
DivideFrom(seq, size, k) ==
    IF InRange(k, Len(seq), size)
    THEN << Slice(seq, k, k + size) >> \o DivideFrom(seq, size, k + size)
    ELSE <<>>

\* list(divide(lst, n)) for n > 0
ListDivide(seq, size) == DivideFrom(seq, size, 0)

-----------------------------------------------------------------------------
(* get_offer_ids (seller.py, market.py) *)

\* Python truth value: "not v" holds of None and of the empty string.
Falsy(v) == v \in {None, ""}

\* Variant of SellerDone that ends the loop on an empty cursor.
SellerDoneOnEmptyCursor(page, plist) == Falsy(Get(page, "last_id"))

\* seller.py: if total == len(product_list): break
SellerDone(page, plist) == Get(page, "total") = Len(plist)

\* One pass of the while loop on the page that get_product_list returned:
\* the extended product_list, the next cursor, and whether the loop breaks.
SellerStep(page, plist) ==
    LET extended == plist \o Get(page, "items")
    IN  [product_list |-> extended,
         cursor |-> Get(page, "last_id"),
         done |-> SellerDone(page, extended)]

MarketStep(page, plist) ==
    LET extended == plist \o Get(page, "offerMappingEntries")
        token == Get(Get(page, "paging"), "nextPageToken")
    IN  [product_list |-> extended, cursor |-> token, done |-> Falsy(token)]

ResolverStep(market, page, plist) ==
    IF market = "seller" THEN SellerStep(page, plist) ELSE MarketStep(page, plist)

\* The final loop: the identifier field of every accumulated record.
OfferIdsOf(market, plist) ==
    [ k \in 1..Len(plist) |->
        IF market = "seller" THEN Get(plist[k], "offer_id")
        ELSE Get(Get(plist[k], "offer"), "shopSku") ]

-----------------------------------------------------------------------------
(* Inputs *)

SeqsUpTo(S, m) == UNION { [1..k -> S] : k \in 0..m }

\* Identifiers the marketplace may know.
IdStrings == {"A", "7", "C"}

\* Column "Kod" (product code): a text cell and a numeric cell.
CodeCells == {StrCell("A"), IntCell(7)}

\* Column "Kolichestvo" (quantity): the two sentinels, a numeral, a numeric
\* cell, a text that is no number.
QtyCells == {Chars(<< ">", "1", "0" >>), Chars(<< "1" >>), Chars(<< "1", "2" >>),
             IntChars(1), Chars(<< "n", "/", "a" >>)}

\* Column "Tsena" (price): "5'990.00 r.", "0.99", "abc.00"
PriceStrings == {<< "5", "'", "9", "9", "0", ".", "0", "0", " ", "r", "." >>,
                 << "0", ".", "9", "9" >>,
                 << "a", "b", "c", ".", "0", "0" >>}

DefaultQty == Chars(<< "1", "2" >>)
DefaultPrice == << "0", ".", "9", "9" >>

\* Rows for a stock transform (the price column is not read by it).
StockRecords == { [code |-> c, quantity |-> q, price |-> DefaultPrice] :
                  c \in CodeCells, q \in QtyCells }

\* Rows for a price transform (the quantity column is not read by it).
PriceRecords == { [code |-> c, quantity |-> DefaultQty, price |-> p] :
                  c \in CodeCells, p \in PriceStrings }

Warehouse == "wh"

\* Rows a sync run may download: a stocked product with a well-formed price,
\* and a numeric-coded one whose quantity and price are no numbers.
SyncRecords ==
    { [code |-> StrCell("A"), quantity |-> Chars(<< ">", "1", "0" >>),
       price |-> << "5", "'", "9", "9", "0", ".", "0", "0", " ", "r", "." >>],
      [code |-> IntCell(7), quantity |-> Chars(<< "n", "/", "a" >>),
       price |-> << "a", "b", "c", ".", "0", "0" >>] }

SyncInventories == SeqsUpTo(SyncRecords, MaxSyncInv)

\* What requests raises: transport errors and raise_for_status.
RequestErrors == {"ReadTimeout", "ConnectTimeout", "ConnectionError", "HTTPError"}

\* What download_stock raises: the request's errors, or a broken archive.
DownloadErrors == RequestErrors \cup {"BadZipFile"}

\* What the list endpoints may answer.
ItemLists == {<<>>, << "A", "7" >>, << "C" >>, << "A" >>}
Cursors == {"", "p1", "p2"}

SellerProducts(ids) == [ k \in 1..Len(ids) |-> [offer_id |-> ids[k]] ]
MarketProducts(ids) == [ k \in 1..Len(ids) |-> [offer |-> [shopSku |-> ids[k]]] ]

SellerPages == { [items |-> SellerProducts(l), total |-> t, last_id |-> c] :
                 l \in ItemLists, t \in 0..MaxTotal, c \in Cursors }

\* "paging" with a next token, with a null token, or without the key.
NoToken == [ k \in {} |-> None ]
Pagings == { [nextPageToken |-> c] : c \in Cursors \cup {None} } \cup {NoToken}

MarketPages == { [offerMappingEntries |-> MarketProducts(l), paging |-> pg] :
                 l \in ItemLists, pg \in Pagings }

PagesOf(market) == IF market = "seller" THEN SellerPages ELSE MarketPages

PageSize(market, page) ==
    Len(IF market = "seller" THEN page.items ELSE page.offerMappingEntries)

-----------------------------------------------------------------------------
(* Entry points and their marketplace *)

ResolverProgs == {"seller.get_offer_ids", "market.get_offer_ids"}

MainProgs == {"seller.main", "market.main"}
UploadProgs == {"seller.upload_stocks", "seller.upload_prices",
                "market.upload_stocks", "market.upload_prices"}
SyncProgs == MainProgs \cup UploadProgs

TransformProgs == {"seller.create_stocks", "market.create_stocks",
                   "seller.create_prices", "market.create_prices"}

MarketOf(p) ==
    IF p \in {"seller.create_stocks", "seller.create_prices", "seller.get_offer_ids",
              "seller.main", "seller.upload_stocks", "seller.upload_prices"}
    THEN "seller" ELSE "market"

IsStocksProg(p) == p \in {"seller.create_stocks", "market.create_stocks"}
IsPricesProg(p) == p \in {"seller.create_prices", "market.create_prices"}

-----------------------------------------------------------------------------
(* Variables a specification does not use keep these values. *)

IdleResolver == /\ campaign = "none" /\ last_id = "" /\ product_list = <<>>
                /\ pages = <<>> /\ requests = <<>>
IdlePush == /\ todo = <<>> /\ sent = <<>> /\ sent_op = "none" /\ calls = <<>>
IdleMain == /\ printed = "none" /\ retval = None
IdleDivide == /\ lst = <<>> /\ n = 1 /\ i = 0 /\ out = <<>>
IdleTransform == /\ offer_ids = <<>> /\ entry_ids = <<>> /\ watch_remnants = <<>>
                 /\ stocks = <<>> /\ prices = <<>>

resolverVars == << campaign, last_id, product_list, pages, requests >>
pushVars == << todo, sent, sent_op, calls >>
mainVars == << printed, retval >>
divideVars == << lst, n, i, out >>

-----------------------------------------------------------------------------
(* The transforms called on arbitrary arguments *)

InitTransform ==
    /\ prog \in TransformProgs
    /\ pc = "call"
    /\ watch_remnants \in SeqsUpTo(IF IsStocksProg(prog) THEN StockRecords
                                   ELSE PriceRecords, MaxInv)
    /\ offer_ids \in SeqsUpTo(IdStrings, MaxIds)
    /\ entry_ids = offer_ids
    /\ stocks = <<>> /\ prices = <<>>
    /\ error = "none" /\ outcome = "running"
    /\ IdleResolver /\ IdlePush /\ IdleMain /\ IdleDivide

\* stocks = create_stocks(watch_remnants, offer_ids[, warehouse_id])
CallCreateStocks ==
    /\ IsStocksProg(prog) /\ pc = "call"
    /\ LET r == create_stocks(MarketOf(prog), watch_remnants, offer_ids, Warehouse)
       IN  /\ offer_ids' = r.offer_ids
           /\ stocks' = r.stocks
           /\ error' = r.exc
           /\ outcome' = IF r.raised THEN "raised" ELSE "returned"
    /\ pc' = "end"
    /\ UNCHANGED << prog, entry_ids, watch_remnants, prices,
                    resolverVars, pushVars, mainVars, divideVars >>

\* prices = create_prices(watch_remnants, offer_ids)
CallCreatePrices ==
    /\ IsPricesProg(prog) /\ pc = "call"
    /\ LET r == create_prices(MarketOf(prog), watch_remnants, offer_ids)
       IN  /\ offer_ids' = r.offer_ids
           /\ prices' = r.prices
           /\ error' = r.exc
           /\ outcome' = IF r.raised THEN "raised" ELSE "returned"
    /\ pc' = "end"
    /\ UNCHANGED << prog, entry_ids, watch_remnants, stocks,
                    resolverVars, pushVars, mainVars, divideVars >>

NextTransform == CallCreateStocks \/ CallCreatePrices

SpecTransform == InitTransform /\ [][NextTransform]_vars

-----------------------------------------------------------------------------
(* The generator divide(lst, n), iterated to exhaustion *)

Elems == {"x", "y"}

InitDivide ==
    /\ prog = "divide"
    /\ pc = "start"
    /\ lst \in SeqsUpTo(Elems, MaxLen)
    /\ n \in -1..MaxN
    /\ i = 0
    /\ out = <<>>
    /\ error = "none" /\ outcome = "running"
    /\ IdleResolver /\ IdlePush /\ IdleMain /\ IdleTransform

\* First next(): range(0, len(lst), n) is built; a zero step raises ValueError.
DivideStart ==
    /\ prog = "divide" /\ pc = "start"
    /\ IF n = 0
       THEN /\ pc' = "end" /\ error' = "ValueError" /\ outcome' = "raised"
       ELSE /\ pc' = "loop" /\ UNCHANGED << error, outcome >>
    /\ i' = 0
    /\ UNCHANGED << prog, lst, n, out, offer_ids, entry_ids, watch_remnants, stocks,
                    prices, resolverVars, pushVars, mainVars >>

\* yield lst[i : i + n]
DivideYield ==
    /\ prog = "divide" /\ pc = "loop"
    /\ InRange(i, Len(lst), n)
    /\ out' = Append(out, Slice(lst, i, i + n))
    /\ i' = i + n
    /\ UNCHANGED << prog, pc, lst, n, error, outcome, offer_ids, entry_ids,
                    watch_remnants, stocks, prices, resolverVars, pushVars, mainVars >>

\* The range is exhausted: the generator returns.
DivideStop ==
    /\ prog = "divide" /\ pc = "loop"
    /\ ~InRange(i, Len(lst), n)
    /\ pc' = "end" /\ outcome' = "returned"
    /\ UNCHANGED << prog, lst, n, i, out, error, offer_ids, entry_ids,
                    watch_remnants, stocks, prices, resolverVars, pushVars, mainVars >>

NextDivide == DivideStart \/ DivideYield \/ DivideStop

SpecDivide == InitDivide /\ [][NextDivide]_vars

-----------------------------------------------------------------------------
(* get_offer_ids against a marketplace that may answer any page *)

InitResolver ==
    /\ prog \in ResolverProgs
    /\ pc = "list"
    /\ campaign = "none"
    /\ last_id = "" /\ product_list = <<>>
    /\ pages = <<>> /\ requests = <<>>
    /\ error = "none" /\ outcome = "running"
    /\ IdlePush /\ IdleMain /\ IdleDivide /\ IdleTransform

\* get_product_list(last_id, ...) answers with a page; the loop body runs on it.
FetchPage ==
    /\ prog \in ResolverProgs /\ pc = "list"
    /\ Len(requests) < MaxCalls
    /\ \E page \in PagesOf(MarketOf(prog)) :
          LET r == ResolverStep(MarketOf(prog), page, product_list)
          IN  /\ requests' = Append(requests, last_id)
              /\ pages' = Append(pages, page)
              /\ product_list' = r.product_list
              /\ last_id' = r.cursor
              /\ IF r.done
                 THEN /\ offer_ids' = OfferIdsOf(MarketOf(prog), r.product_list)
                      /\ pc' = "end" /\ outcome' = "returned"
                 ELSE UNCHANGED << offer_ids, pc, outcome >>
    /\ UNCHANGED << prog, campaign, error, entry_ids, watch_remnants, stocks, prices,
                    pushVars, mainVars, divideVars >>

\* get_product_list raises: the exception leaves get_offer_ids.
FetchFails ==
    /\ prog \in ResolverProgs /\ pc = "list"
    /\ Len(requests) < MaxCalls
    /\ \E e \in RequestErrors : error' = e
    /\ requests' = Append(requests, last_id)
    /\ pc' = "end" /\ outcome' = "raised"
    /\ UNCHANGED << prog, campaign, last_id, product_list, pages, offer_ids, entry_ids,
                    watch_remnants, stocks, prices, pushVars, mainVars, divideVars >>

NextResolver == FetchPage \/ FetchFails

SpecResolver == InitResolver /\ [][NextResolver]_vars

-----------------------------------------------------------------------------
(* get_offer_ids with no bound on the number of list requests.  The      *)
(* marketplace serves at most MaxProducts records; pages and requests    *)
(* keep the last exchange only.                                          *)

LiveFetchPage ==
    /\ prog \in ResolverProgs /\ pc = "list"
    /\ \E page \in PagesOf(MarketOf(prog)) :
          /\ Len(product_list) + PageSize(MarketOf(prog), page) <= MaxProducts
          /\ LET r == ResolverStep(MarketOf(prog), page, product_list)
             IN  /\ requests' = << last_id >>
                 /\ pages' = << page >>
                 /\ product_list' = r.product_list
                 /\ last_id' = r.cursor
                 /\ IF r.done
                    THEN /\ offer_ids' = OfferIdsOf(MarketOf(prog), r.product_list)
                         /\ pc' = "end" /\ outcome' = "returned"
                    ELSE UNCHANGED << offer_ids, pc, outcome >>
    /\ UNCHANGED << prog, campaign, error, entry_ids, watch_remnants, stocks, prices,
                    pushVars, mainVars, divideVars >>

LiveFetchFails ==
    /\ prog \in ResolverProgs /\ pc = "list"
    /\ \E e \in RequestErrors : error' = e
    /\ requests' = << last_id >>
    /\ pc' = "end" /\ outcome' = "raised"
    /\ UNCHANGED << prog, campaign, last_id, product_list, pages, offer_ids, entry_ids,
                    watch_remnants, stocks, prices, pushVars, mainVars, divideVars >>

NextLive == LiveFetchPage \/ LiveFetchFails

\* The loop is sequential: once a request has been answered the next one is sent.
FairResolver == InitResolver /\ [][NextLive]_vars /\ WF_vars(NextLive)

-----------------------------------------------------------------------------
(* The sync entry points: seller.main, market.main and the upload_*      *)
(* coroutines (run to completion by whoever awaits them).  A step is one *)
(* request together with the code that runs until the next request.      *)

\* The locals of the running entry point, as one record.
Cur == [pc |-> pc, campaign |-> campaign, last_id |-> last_id,
        product_list |-> product_list, requests |-> requests,
        offer_ids |-> offer_ids, entry_ids |-> entry_ids,
        watch_remnants |-> watch_remnants, stocks |-> stocks, prices |-> prices,
        todo |-> todo, sent |-> sent, sent_op |-> sent_op,
        error |-> error, printed |-> printed, outcome |-> outcome, retval |-> retval]

Set(m) ==
    /\ pc' = m.pc /\ campaign' = m.campaign /\ last_id' = m.last_id
    /\ product_list' = m.product_list /\ requests' = m.requests
    /\ offer_ids' = m.offer_ids /\ entry_ids' = m.entry_ids
    /\ watch_remnants' = m.watch_remnants /\ stocks' = m.stocks /\ prices' = m.prices
    /\ todo' = m.todo /\ sent' = m.sent /\ sent_op' = m.sent_op
    /\ error' = m.error /\ printed' = m.printed /\ outcome' = m.outcome
    /\ retval' = m.retval

\* Exception classes and their bases (requests.exceptions, builtins, zipfile).
Bases(e) ==
    CASE e = "ReadTimeout" -> {"ReadTimeout", "Timeout", "RequestException", "Exception"}
      [] e = "ConnectTimeout" -> {"ConnectTimeout", "ConnectionError", "Timeout",
                                  "RequestException", "Exception"}
      [] e = "ConnectionError" -> {"ConnectionError", "RequestException", "Exception"}
      [] e = "HTTPError" -> {"HTTPError", "RequestException", "Exception"}
      [] OTHER -> {e, "Exception"}

MsgTimeout == "Prevysheno vremya ozhidaniya..."
MsgConnection == "Oshibka soedineniya"
MsgOther == "ERROR_2"

\* The except clauses of both main functions, in order.
HandlerMessage(e) ==
    IF "ReadTimeout" \in Bases(e) THEN MsgTimeout
    ELSE IF "ConnectionError" \in Bases(e) THEN MsgConnection
    ELSE MsgOther

\* Whether the statement at m.pc is inside the try block of a main function.
InTry(m) ==
    \/ prog = "seller.main"
    \/ prog = "market.main" /\ m.pc # "download"

\* Variant of Raise in which the exception is noted and the statement runs again.
RaiseAndRetry(m, e) == [m EXCEPT !.error = e]

\* Exception e is raised at m.pc: a main function catches it in its try block,
\* prints and returns; anywhere else it leaves the entry point.
Raise(m, e) ==
    IF InTry(m)
    THEN [m EXCEPT !.error = e, !.printed = HandlerMessage(e),
                   !.outcome = "returned", !.pc = "end"]
    ELSE [m EXCEPT !.error = e, !.outcome = "raised", !.pc = "end"]

Return(m, v) == [m EXCEPT !.outcome = "returned", !.retval = v, !.pc = "end"]

\* offer_ids = get_offer_ids(campaign, ...): the call starts with fresh locals.
StartResolver(m, camp) ==
    [m EXCEPT !.pc = "list", !.campaign = camp, !.last_id = "",
              !.product_list = <<>>, !.requests = <<>>]

WarehouseOf(camp) ==
    IF camp = "fbs" THEN "warehouse_fbs" ELSE IF camp = "dbs" THEN "warehouse_dbs" ELSE None

StockBatch == IF MarketOf(prog) = "seller" THEN SellerStockBatch ELSE MarketStockBatch

PriceBatch ==
    IF prog = "seller.main" THEN SellerPriceBatch
    ELSE IF prog = "seller.upload_prices" THEN SellerUploadPriceBatch
    ELSE MarketPriceBatch

NotEmpty(market, payload) == SelectSeq(payload, LAMBDA item : StockQty(market, item) # 0)

RECURSIVE AfterLoop(_)

\* for chunk in list(divide(payload, size)): update(chunk, ...)
StartPush(m, op, payload, size) ==
    LET started == [m EXCEPT !.todo = ListDivide(payload, size), !.sent = <<>>,
                             !.sent_op = op, !.pc = op]
    IN  IF started.todo = <<>> THEN AfterLoop(started) ELSE started

\* prices = create_prices(watch_remnants, offer_ids), then the price loop
BuildPrices(m) ==
    LET r == create_prices(MarketOf(prog), m.watch_remnants, m.offer_ids)
    IN  IF r.raised THEN Raise([m EXCEPT !.offer_ids = r.offer_ids], r.exc)
        ELSE StartPush([m EXCEPT !.offer_ids = r.offer_ids, !.prices = r.prices],
                       "update_price", r.prices, PriceBatch)

\* stocks = create_stocks(watch_remnants, offer_ids[, warehouse]), then the stock loop
BuildStocks(m) ==
    LET r == create_stocks(MarketOf(prog), m.watch_remnants, m.offer_ids,
                           WarehouseOf(m.campaign))
    IN  IF r.raised THEN Raise([m EXCEPT !.offer_ids = r.offer_ids], r.exc)
        ELSE StartPush([m EXCEPT !.offer_ids = r.offer_ids, !.stocks = r.stocks],
                       "update_stocks", r.stocks, StockBatch)

\* What follows a for-loop that has pushed its last chunk.
\*  seller.main: create_prices on the list create_stocks has mutated, price loop.
\*  market.main: upload_prices(...) is called without await, which only builds
\*  a coroutine object: no statement of its body runs.  Then the DBS campaign.
AfterLoop(m) ==
    IF m.sent_op = "update_stocks"
    THEN CASE prog = "seller.main" -> BuildPrices(m)
           [] prog = "market.main" ->
                IF m.campaign = "fbs" THEN StartResolver(m, "dbs") ELSE Return(m, None)
           [] OTHER -> Return(m, << NotEmpty(MarketOf(prog), m.stocks), m.stocks >>)
    ELSE IF prog = "seller.main" THEN Return(m, None) ELSE Return(m, m.prices)

\* What follows the return of get_offer_ids with the identifiers ids.
AfterResolver(m, ids) ==
    LET got == [m EXCEPT !.offer_ids = ids, !.entry_ids = ids]
    IN  CASE prog = "seller.main" -> [got EXCEPT !.pc = "download"]
          [] prog \in {"seller.upload_prices", "market.upload_prices"} -> BuildPrices(got)
          [] OTHER -> BuildStocks(got)

\* What follows the return of download_stock with the rows inv.
AfterDownload(m, inv) ==
    LET got == [m EXCEPT !.watch_remnants = inv]
    IN  IF prog = "seller.main" THEN BuildStocks(got) ELSE StartResolver(got, "fbs")

Call(op, ok) == [op |-> op, campaign |-> campaign, ok |-> ok]

Init ==
    /\ prog \in SyncProgs
    /\ pc = IF prog = "market.main" THEN "download" ELSE "list"
    /\ campaign = IF prog = "market.main" THEN "none"
                  ELSE IF MarketOf(prog) = "seller" THEN "ozon" ELSE "fbs"
    /\ watch_remnants \in IF prog \in MainProgs THEN {<<>>} ELSE SyncInventories
    /\ last_id = "" /\ product_list = <<>> /\ requests = <<>> /\ pages = <<>>
    /\ offer_ids = <<>> /\ entry_ids = <<>>
    /\ stocks = <<>> /\ prices = <<>>
    /\ error = "none" /\ outcome = "running"
    /\ IdlePush /\ IdleMain /\ IdleDivide

\* watch_remnants = download_stock()
DownloadOk ==
    /\ prog \in MainProgs /\ pc = "download"
    /\ \E inv \in SyncInventories : Set(AfterDownload(Cur, inv))
    /\ calls' = Append(calls, Call("download", TRUE))
    /\ UNCHANGED << prog, pages, divideVars >>

DownloadFails ==
    /\ prog \in MainProgs /\ pc = "download"
    /\ \E e \in DownloadErrors : Set(Raise(Cur, e))
    /\ calls' = Append(calls, Call("download", FALSE))
    /\ UNCHANGED << prog, pages, divideVars >>

\* get_offer_ids: one get_product_list request answered, one pass of the loop.
ListOk ==
    /\ prog \in SyncProgs /\ pc = "list"
    /\ Len(requests) < MaxSyncCalls
    /\ \E page \in PagesOf(MarketOf(prog)) :
          LET r == ResolverStep(MarketOf(prog), page, product_list)
              looped == [Cur EXCEPT !.requests = Append(requests, last_id),
                                    !.product_list = r.product_list,
                                    !.last_id = r.cursor]
          IN  Set(IF r.done
                  THEN AfterResolver(looped, OfferIdsOf(MarketOf(prog), r.product_list))
                  ELSE looped)
    /\ calls' = Append(calls, Call("list", TRUE))
    /\ UNCHANGED << prog, pages, divideVars >>

ListFails ==
    /\ prog \in SyncProgs /\ pc = "list"
    /\ Len(requests) < MaxSyncCalls
    /\ \E e \in RequestErrors :
          Set(Raise([Cur EXCEPT !.requests = Append(requests, last_id)], e))
    /\ calls' = Append(calls, Call("list", FALSE))
    /\ UNCHANGED << prog, pages, divideVars >>

\* One pass of a for-loop: the next chunk has been sent and answered.
Pushed ==
    LET pushed == [Cur EXCEPT !.sent = Append(sent, Head(todo)), !.todo = Tail(todo)]
    IN  IF pushed.todo = <<>> THEN AfterLoop(pushed) ELSE pushed

\* update_stocks(some_stock, ...)
UpdateStocksOk ==
    /\ prog \in SyncProgs /\ pc = "update_stocks"
    /\ Set(Pushed)
    /\ calls' = Append(calls, Call("update_stocks", TRUE))
    /\ UNCHANGED << prog, pages, divideVars >>

UpdateStocksFails ==
    /\ prog \in SyncProgs /\ pc = "update_stocks"
    /\ \E e \in RequestErrors : Set(Raise(Cur, e))
    /\ calls' = Append(calls, Call("update_stocks", FALSE))
    /\ UNCHANGED << prog, pages, divideVars >>

\* update_price(some_price, ...)
UpdatePriceOk ==
    /\ prog \in SyncProgs /\ pc = "update_price"
    /\ Set(Pushed)
    /\ calls' = Append(calls, Call("update_price", TRUE))
    /\ UNCHANGED << prog, pages, divideVars >>

UpdatePriceFails ==
    /\ prog \in SyncProgs /\ pc = "update_price"
    /\ \E e \in RequestErrors : Set(Raise(Cur, e))
    /\ calls' = Append(calls, Call("update_price", FALSE))
    /\ UNCHANGED << prog, pages, divideVars >>

Next ==
    \/ DownloadOk \/ DownloadFails
    \/ ListOk \/ ListFails
    \/ UpdateStocksOk \/ UpdateStocksFails
    \/ UpdatePriceOk \/ UpdatePriceFails

Spec == Init /\ [][Next]_vars

-----------------------------------------------------------------------------
(* Claims about the transforms, checked under SpecTransform *)

Count(x, seq) == Cardinality({ k \in 1..Len(seq) : seq[k] = x })

CodeStr(k) == PyStr(watch_remnants[k].code)

StockIds == [ k \in 1..Len(stocks) |-> StockId(MarketOf(prog), stocks[k]) ]
StockQtys == [ k \in 1..Len(stocks) |-> StockQty(MarketOf(prog), stocks[k]) ]
PriceIds == [ k \in 1..Len(prices) |-> PriceId(MarketOf(prog), prices[k]) ]

StocksReturned == IsStocksProg(prog) /\ outcome = "returned"
PricesReturned == IsPricesProg(prog) /\ outcome = "returned"

\* C1 as stated: the stock payload returned by create_stocks has as many items
\* as the identifier list had on entry, and every identifier of that list
\* appears in the payload exactly once.
C1_ExactlyOnce ==
    StocksReturned =>
        /\ Len(stocks) = Len(entry_ids)
        /\ \A k \in 1..Len(entry_ids) : Count(entry_ids[k], StockIds) = 1

\* C1 amended: the stock payload returned by create_stocks has as many items
\* as the identifier list had on entry, and every identifier appears in the
\* payload exactly as many times as it occurred in that list (once when the
\* list has no repeated identifier); nothing else appears in the payload.
C1_SameMultiset ==
    StocksReturned =>
        /\ Len(stocks) = Len(entry_ids)
        /\ \A k \in 1..Len(entry_ids) :
              Count(entry_ids[k], StockIds) = Count(entry_ids[k], entry_ids)
        /\ \A k \in 1..Len(stocks) : In(StockIds[k], entry_ids)

\* A call that returned, on a list with a repeated identifier of which some
\* identifiers were matched by the inventory and some were left over.
C1_Witness ==
    /\ StocksReturned
    /\ Len(entry_ids) = 3
    /\ \E k \in 1..3 : Count(entry_ids[k], entry_ids) = 2
    /\ Len(offer_ids) \in {1, 2}

\* Record k finds its code in the identifier list when the first loop reaches
\* it: fewer earlier records carry the code than the list had occurrences.
Matched(k) ==
    Cardinality({ j \in 1..(k - 1) : CodeStr(j) = CodeStr(k) }) < Count(CodeStr(k), entry_ids)

\* Position in the payload of the item emitted for record k.
Pos(k) == Cardinality({ j \in 1..k : Matched(j) })

\* The quantity rule as the claim states it, on the quantities of QtyCells.
QtyRule(q) ==
    CASE q = Chars(<< ">", "1", "0" >>) -> 100
      [] q = Chars(<< "1" >>) -> 0
      [] q = IntChars(1) -> 0
      [] q = Chars(<< "1", "2" >>) -> 12
      [] OTHER -> -1

ExampleIds == << "A", "7", "C" >>
ExampleInventory ==
    << [code |-> StrCell("A"), quantity |-> Chars(<< ">", "1", "0" >>), price |-> DefaultPrice],
       [code |-> IntCell(7), quantity |-> Chars(<< "1" >>), price |-> DefaultPrice] >>

\* C2: in the payload returned by create_stocks, the item emitted for an
\* inventory record whose code is in the identifier list when the record is
\* processed carries 100 for ">10", 0 for "1" and otherwise the integer value
\* of the quantity; every identifier no record matched has an item, and its
\* items carry 0.  Identifiers [A,7,C] with inventory A:">10", 7:"1" give
\* A=100, 7=0, C=0.
C2_Quantities ==
    StocksReturned =>
        /\ \A k \in 1..Len(watch_remnants) :
              Matched(k) => /\ Pos(k) <= Len(stocks)
                            /\ StockIds[Pos(k)] = CodeStr(k)
                            /\ StockQtys[Pos(k)] = QtyRule(watch_remnants[k].quantity)
        /\ \A p \in (Pos(Len(watch_remnants)) + 1)..Len(stocks) : StockQtys[p] = 0
        /\ \A k \in 1..Len(entry_ids) :
              (\A j \in 1..Len(watch_remnants) : CodeStr(j) # entry_ids[k])
                  => /\ In(entry_ids[k], StockIds)
                     /\ \A p \in 1..Len(stocks) :
                           StockIds[p] = entry_ids[k] => StockQtys[p] = 0
        /\ (entry_ids = ExampleIds /\ watch_remnants = ExampleInventory)
              => StockIds = ExampleIds /\ StockQtys = << 100, 0, 0 >>

\* The example of the claim has been run, by either create_stocks.
C2_Witness ==
    /\ StocksReturned
    /\ entry_ids = ExampleIds
    /\ watch_remnants = ExampleInventory

MatchedPrice(k) == In(CodeStr(k), entry_ids)
PosPrice(k) == Cardinality({ j \in 1..k : MatchedPrice(j) })

\* C3: the payload returned by create_prices has one item, in inventory order,
\* for each record whose code is in the identifier list and none for any other
\* record; an identifier absent from the inventory has no item; the identifier
\* list is as it was on entry.
C3_PricesFilter ==
    PricesReturned =>
        /\ Len(prices) = PosPrice(Len(watch_remnants))
        /\ \A k \in 1..Len(watch_remnants) :
              MatchedPrice(k) => PriceIds[PosPrice(k)] = CodeStr(k)
        /\ \A k \in 1..Len(entry_ids) :
              (\A j \in 1..Len(watch_remnants) : CodeStr(j) # entry_ids[k])
                  => ~In(entry_ids[k], PriceIds)
        /\ offer_ids = entry_ids

\* A call that returned with a record matched twice, and an identifier that is
\* absent from the inventory.
C3_Witness ==
    /\ PricesReturned
    /\ Len(watch_remnants) = 2
    /\ CodeStr(1) = CodeStr(2)
    /\ Len(prices) = 2
    /\ \E k \in 1..Len(entry_ids) : ~In(entry_ids[k], PriceIds)

-----------------------------------------------------------------------------
(* Claims about divide, checked under SpecDivide *)

RECURSIVE Flatten(_)
Flatten(chunks) == IF chunks = <<>> THEN <<>> ELSE Head(chunks) \o Flatten(Tail(chunks))

\* ceil(a / b) for b > 0
CeilDiv(a, b) == (a + b - 1) \div b

\* C5: when divide(lst, n) with n > 0 is exhausted, the chunks in order
\* concatenate to lst, every chunk but the last has length n, the last chunk
\* is not empty, and there are ceil(len(lst) / n) chunks.
C5_Chunks ==
    (prog = "divide" /\ n > 0 /\ pc = "end") =>
        /\ outcome = "returned"
        /\ Flatten(out) = lst
        /\ \A k \in 1..(Len(out) - 1) : Len(out[k]) = n
        /\ out # <<>> => Len(out[Len(out)]) \in 1..n
        /\ Len(out) = CeilDiv(Len(lst), n)

\* Five elements in chunks of two: three chunks, the last one short.
C5_Witness ==
    /\ prog = "divide" /\ pc = "end" /\ outcome = "returned"
    /\ n = 2 /\ Len(lst) = 5
    /\ Len(out) = 3 /\ Len(out[3]) = 1

-----------------------------------------------------------------------------
(* Claims about get_offer_ids *)

ResolverMarket == MarketOf(prog)

\* The cursor a page hands back, and the identifiers of its records.
PageCursor(page) ==
    IF ResolverMarket = "seller" THEN page.last_id
    ELSE IF "nextPageToken" \in DOMAIN page.paging THEN page.paging.nextPageToken ELSE None

PageIds(page) ==
    IF ResolverMarket = "seller"
    THEN [ k \in 1..Len(page.items) |-> page.items[k].offer_id ]
    ELSE [ k \in 1..Len(page.offerMappingEntries) |-> page.offerMappingEntries[k].offer.shopSku ]

RECURSIVE IdsOfPages(_)
IdsOfPages(ps) == IF ps = <<>> THEN <<>> ELSE PageIds(Head(ps)) \o IdsOfPages(Tail(ps))

\* The marketplace's termination condition holds on the k-th page fetched.
TerminatesAt(k) ==
    IF ResolverMarket = "seller"
    THEN pages[k].total = Len(IdsOfPages(SubSeq(pages, 1, k)))
    ELSE PageCursor(pages[k]) \in {"", None}

ExamplePages ==
    << [items |-> << [offer_id |-> "A"], [offer_id |-> "7"] >>, total |-> 3, last_id |-> "p1"],
       [items |-> << [offer_id |-> "C"] >>, total |-> 3, last_id |-> ""] >>

\* C7 (under SpecResolver): the first list request carries the empty cursor and
\* each later one the cursor of the previous page; get_offer_ids returns the
\* identifiers of all records of all fetched pages in page order; it returns on
\* the first page on which the termination condition holds and sends no request
\* after it.  The two pages of the example give A, 7, C after two requests.
C7_Resolver ==
    prog \in ResolverProgs =>
        /\ \A k \in 1..Len(requests) :
              requests[k] = IF k = 1 THEN "" ELSE PageCursor(pages[k - 1])
        /\ \A k \in 1..Len(pages) :
              TerminatesAt(k) <=> (outcome = "returned" /\ k = Len(pages))
        /\ outcome = "returned" =>
              /\ Len(requests) = Len(pages)
              /\ offer_ids = IdsOfPages(pages)
        /\ (prog = "seller.get_offer_ids" /\ pages = ExamplePages) =>
              /\ outcome = "returned"
              /\ offer_ids = << "A", "7", "C" >>
              /\ Len(requests) = 2

\* The Seller resolver has fetched the two pages of the example.
C7_Witness ==
    /\ prog = "seller.get_offer_ids"
    /\ pages = ExamplePages
    /\ requests = << "", "p1" >>

\* The last answer did not advance the cursor: it is empty, or the one sent.
Stalled ==
    /\ pages # <<>>
    /\ \/ PageCursor(pages[1]) \in {"", None}
       \/ PageCursor(pages[1]) = requests[1]

\* C8 (under FairResolver): if from some request on the marketplace never
\* advances the cursor again, get_offer_ids eventually leaves its loop.
C8_Terminates == (<>[]Stalled) => <>(outcome # "running")

-----------------------------------------------------------------------------
(* Claims about the sync entry points, checked under Spec *)

\* Items carried by the update-price requests of the run.
PriceItemsSent == IF sent_op = "update_price" THEN Flatten(sent) ELSE <<>>

PriceIdsSent ==
    [ k \in 1..Len(PriceItemsSent) |-> PriceId(MarketOf(prog), PriceItemsSent[k]) ]

\* C4: when seller.main or market.main ends and no call has failed, every
\* inventory record whose code is among the identifiers the marketplace listed
\* has been sent in exactly one update-price request.
C4_PricesPushed ==
    (prog \in MainProgs /\ pc = "end" /\ error = "none") =>
        \A k \in 1..Len(watch_remnants) :
            In(CodeStr(k), entry_ids) =>
                Count(CodeStr(k), PriceIdsSent)
                    = Cardinality({ j \in 1..Len(watch_remnants) : CodeStr(j) = CodeStr(k) })

\* The k-th consecutive slice of size elements.
KthSlice(payload, size, k) ==
    SubSeq(payload, (k - 1) * size + 1,
           IF k * size < Len(payload) THEN k * size ELSE Len(payload))

PushOps == {"update_stocks", "update_price"}

C6_Step ==
    (prog \in SyncProgs /\ pc \in PushOps) =>
        LET payload == IF pc = "update_stocks" THEN stocks ELSE prices
            size == IF pc = "update_stocks" THEN StockBatch ELSE PriceBatch
            k == Len(sent) + 1
        IN  /\ todo # <<>>
            /\ Head(todo) = KthSlice(payload, size, k)
            /\ calls' = Append(calls, [op |-> pc, campaign |-> campaign,
                                       ok |-> error' = "none"])
            /\ error' = "none" =>
                  IF pc' = pc
                  THEN /\ sent' = Append(sent, Head(todo))
                       /\ stocks' = stocks /\ prices' = prices
                       /\ k < CeilDiv(Len(payload), size)
                  ELSE k = CeilDiv(Len(payload), size)

\* C6: every step of a for-loop that pushes a payload of L items in batches of
\* n issues one update request, the k-th of them carrying the k-th consecutive
\* slice of the payload; while no request fails the loop goes on to the next
\* slice and is left only after request number ceil(L / n).
C6_Sequential == [][C6_Step]_vars

\* seller.upload_stocks has pushed a payload of three items in two requests,
\* of two items and of one.
C6_Witness ==
    /\ prog = "seller.upload_stocks" /\ outcome = "returned"
    /\ Len(stocks) = 3
    /\ Len(sent) = 2 /\ Len(sent[1]) = 2 /\ Len(sent[2]) = 1
    /\ Len(SelectSeq(calls, LAMBDA c : c.op = "update_stocks")) = 2

\* C9: a failed list or update request is the last request of the run: it is
\* not sent again, no list, update-stock or update-price request follows it,
\* and the run is over, with the chunks pushed before it left as they are.
C9_AbortNoRetry ==
    prog \in SyncProgs =>
        \A k \in 1..Len(calls) :
            (~calls[k].ok /\ calls[k].op \in PushOps \cup {"list"}) =>
                /\ k = Len(calls)
                /\ pc = "end" /\ outcome # "running" /\ error # "none"

\* The second update-stock request of a run failed after the first went through.
C9_Witness ==
    /\ prog \in MainProgs
    /\ sent_op = "update_stocks" /\ Len(sent) = 1 /\ todo # <<>>
    /\ calls # <<>>
    /\ ~calls[Len(calls)].ok /\ calls[Len(calls)].op = "update_stocks"

\* C10: an error raised during seller.main or market.main is caught by main,
\* which prints the message for a read timeout, the one for a connection
\* error or the generic one, and returns.
C10_Contained ==
    (prog \in MainProgs /\ error # "none") =>
        /\ outcome = "returned"
        /\ printed = IF error = "ReadTimeout" THEN MsgTimeout
                     ELSE IF error \in {"ConnectionError", "ConnectTimeout"} THEN MsgConnection
                     ELSE MsgOther

-----------------------------------------------------------------------------
(* Claim about divide with a non-positive size, checked under SpecDivide *)

\* C11: iterating divide(lst, n) with n <= 0 ends with an error, and no chunk
\* has been produced; it does not complete normally.
C11_FailsFast ==
    (prog = "divide" /\ n <= 0 /\ pc = "end") =>
        /\ outcome = "raised" /\ error # "none"
        /\ out = <<>>

====
